---- MODULE Spec2Model ----
(***************************************************************************)
(* Model of cfgen: the derive macro's option resolution                    *)
(* (cfgen_derive/src/lib.rs, CfgOpt::default / parse_all_attrs /           *)
(* parse_field) and the code it generates for a bound type                 *)
(* (path / load / write_default / load_or_write_default).                  *)
(*                                                                         *)
(* Three specifications share the variables:                               *)
(*   Spec        one caller, every filesystem state, outside changes       *)
(*               between calls;                                            *)
(*   SpecConc    several callers interleaved at the granularity of one     *)
(*               filesystem operation / one step of the lazy PATH cell;    *)
(*   SpecResolve the build-time option resolution.                         *)
(***************************************************************************)
EXTENDS Integers, Sequences, FiniteSets, TLC

(***************************************************************************)
(* Bounds                                                                  *)
(***************************************************************************)
\* number of concurrent callers in SpecConc
NumThreads == 2
\* longest CARGO_PKG_AUTHORS string drawn in SpecResolve
MaxLen == 2
\* most calls the callers of SpecConc make between them
MaxCalls == 2
\* most key/value options in one #[cfgen(...)] attribute in SpecResolve
MaxAttrs == 2

Threads == 1..NumThreads

(***************************************************************************)
(* Formats and the codecs (cfgen_derive/src/lib.rs 193-220)                *)
(***************************************************************************)
Format == {"Toml", "Yaml"}

\* mutant of FormatError: one variant for every format
FormatError_TomlOnly(fmt) == "Toml"

\* Format::error: the Error variant a failed deserialization is wrapped in
FormatError(fmt) == IF fmt = "Yaml" THEN "Yaml" ELSE "Toml"

\* Format::default_filename
default_filename(fmt) == IF fmt = "Yaml" THEN "config.yml" ELSE "config.toml"

\* File contents.  Binary stands for bytes that are not valid UTF-8; the
\* others are texts.  "a = 1" and "a=1" are two TOML spellings of one value.
Binary == "<not utf-8>"
Texts == {"a = 1", "a=1", "a = 2", "a: 1", "a: 2"}
Contents == Texts \cup {Binary}

ParseOk(v) == [ok |-> TRUE, value |-> v]
ParseFail == [ok |-> FALSE, value |-> 0]

\* toml::from_str into the bound type
TomlFromStr(c) ==
    CASE c = "a = 1" -> ParseOk(1)
      [] c = "a=1"   -> ParseOk(1)
      [] c = "a = 2" -> ParseOk(2)
      [] OTHER       -> ParseFail

\* serde_yaml::from_str into the bound type
YamlFromStr(c) ==
    CASE c = "a: 1" -> ParseOk(1)
      [] c = "a: 2" -> ParseOk(2)
      [] OTHER      -> ParseFail

\* Format::deserialize_from_str: the codec the format selects
Deserialize(fmt, c) == IF fmt = "Yaml" THEN YamlFromStr(c) ELSE TomlFromStr(c)

(***************************************************************************)
(* Paths, results and errors (src/lib.rs 97-116, 168-175)                  *)
(***************************************************************************)
Homes == {"/home/a", "/home/b"}
NoHome == "<no home>"

NoPath == [home |-> "-", leaf |-> "-"]
\* ProjectDirs::from(..).config_dir().join(filename) for the given home
ConfigPath(h) == [home |-> h, leaf |-> "file"]
\* Path::parent
Parent(p) == [home |-> p.home, leaf |-> "dir"]

\* Ok(value) / Ok((value, written))
Ok(v, w) == [ok |-> TRUE, value |-> v, written |-> w,
             kind |-> "-", cause |-> "-", path |-> NoPath]
\* Err(Error::kind(io or parse cause, path))
Err(k, c, p) == [ok |-> FALSE, value |-> 0, written |-> FALSE,
                 kind |-> k, cause |-> c, path |-> p]
NoResult == [ok |-> FALSE, value |-> 0, written |-> FALSE,
             kind |-> "none", cause |-> "-", path |-> NoPath]

\* ConfigLoad: the tag the boolean of load_or_write_default stands for
ConfigLoad(r) == IF r.written THEN "DefaultWritten" ELSE "Loaded"

(***************************************************************************)
(* The filesystem at the resolved path                                     *)
(***************************************************************************)
NoFile == [exists |-> FALSE, cont |-> "-", readable |-> FALSE]
File(c, r) == [exists |-> TRUE, cont |-> c, readable |-> r]
Files == {NoFile} \cup {File(c, r) : c \in Contents, r \in BOOLEAN}

\* dir: the parent directory exists; canMkdir: missing directories may be
\* created; canWrite: creating/truncating the file is permitted.
FsStates == {f \in [dir : BOOLEAN, file : Files, canMkdir : BOOLEAN, canWrite : BOOLEAN] :
                f.file.exists => f.dir}

\* nothing on disk yet, everything permitted
f0 == [dir |-> FALSE, file |-> NoFile, canMkdir |-> TRUE, canWrite |-> TRUE]

Ops == {"load", "write_default", "load_or_write_default"}

VARIABLES
    format,         \* descriptor: the format of the bound type
    default_config, \* descriptor: the literal default payload
    env_home,       \* the environment ProjectDirs::from reads
    PATH,           \* the lazy static: [state, value]
    computed,       \* how often PATH's initializer ran
    observed,       \* the values path() has returned so far
    fs,             \* the filesystem at the resolved path
    pc, op, phase,  \* per caller: position, operation, first load or load after write
    result,         \* per caller: what the operation returned
    first,          \* per caller: what the first load() of load_or_write_default returned
    wdres,          \* per caller: what write_default() returned, once it has
    trace,          \* per caller: the filesystem operations of the current call, in order
    fs0,            \* per caller: the filesystem when the current call started
    prev,           \* per caller: the preceding call, if nothing changed since
    calls,          \* calls started so far (counted in SpecConc only)
    pkg_authors,    \* CARGO_PKG_AUTHORS
    features,       \* the format features compiled in
    attrs,          \* the key/value options of #[cfgen(...)], in order
    idx,            \* how many of them parse_all_attrs has handled
    ret,            \* the CfgOpt under construction
    rpc             \* position of the resolution

rtvars == <<format, default_config, env_home, PATH, computed, observed, fs,
            pc, op, phase, result, first, wdres, trace, fs0, prev, calls>>
rsvars == <<pkg_authors, features, attrs, idx, ret, rpc>>
vars == <<rtvars, rsvars>>

(***************************************************************************)
(* The generated operations as functions of the filesystem                 *)
(***************************************************************************)
\* std::fs::read_to_string(Self::path())
read_to_string(f) ==
    IF ~f.file.exists THEN [ok |-> FALSE, cause |-> "NotFound", cont |-> "-"]
    ELSE IF ~f.file.readable THEN [ok |-> FALSE, cause |-> "PermissionDenied", cont |-> "-"]
    ELSE IF f.file.cont = Binary THEN [ok |-> FALSE, cause |-> "InvalidData", cont |-> "-"]
    ELSE [ok |-> TRUE, cause |-> "-", cont |-> f.file.cont]

\* Cfgen::load: read the file, map a read failure to IoRead, deserialize,
\* map a parse failure to the format's error variant
load(f, fmt, p) ==
    LET rd == read_to_string(f) IN
    IF ~rd.ok THEN Err("IoRead", rd.cause, p)
    ELSE LET d == Deserialize(fmt, rd.cont) IN
         IF d.ok THEN Ok(d.value, FALSE)
         ELSE Err(FormatError(fmt), "Parse", p)

\* mutant of create_dir_all: fs::create_dir, which fails on an existing directory
create_dir(f) ==
    IF f.dir THEN [ok |-> FALSE, cause |-> "AlreadyExists", fs |-> f]
    ELSE IF f.canMkdir THEN [ok |-> TRUE, cause |-> "-", fs |-> [f EXCEPT !.dir = TRUE]]
    ELSE [ok |-> FALSE, cause |-> "PermissionDenied", fs |-> f]

\* fs::create_dir_all(parent): succeeds on an existing directory
create_dir_all(f) ==
    IF f.dir THEN [ok |-> TRUE, cause |-> "-", fs |-> f]
    ELSE IF f.canMkdir THEN [ok |-> TRUE, cause |-> "-", fs |-> [f EXCEPT !.dir = TRUE]]
    ELSE [ok |-> FALSE, cause |-> "PermissionDenied", fs |-> f]

\* fs::write(Self::path(), DEFAULT): create or truncate, then write the bytes.
\* A file that existed keeps its mode; a created one is readable by its owner.
fs_write(f, payload) ==
    IF ~f.dir THEN [ok |-> FALSE, cause |-> "NotFound", fs |-> f]
    ELSE IF ~f.canWrite THEN [ok |-> FALSE, cause |-> "PermissionDenied", fs |-> f]
    ELSE [ok |-> TRUE, cause |-> "-",
          fs |-> [f EXCEPT !.file = File(payload, IF f.file.exists THEN f.file.readable ELSE TRUE)]]

\* mutant of MatchFirstLoad: every IoRead failure bootstraps
MatchFirstLoad_AnyIoRead(r) ==
    IF r.ok THEN [next |-> "return", result |-> Ok(r.value, FALSE)]
    ELSE IF r.kind = "IoRead" THEN [next |-> "write_default", result |-> NoResult]
    ELSE [next |-> "return", result |-> r]

\* mutant of MatchFirstLoad: a parse failure bootstraps too
MatchFirstLoad_ParseFailure(r) ==
    IF r.ok THEN [next |-> "return", result |-> Ok(r.value, FALSE)]
    ELSE IF r.kind = "IoRead" /\ r.cause # "NotFound"
         THEN [next |-> "return", result |-> Err("IoRead", r.cause, r.path)]
         ELSE [next |-> "write_default", result |-> NoResult]

\* mutant of MatchFirstLoad: the default is written whatever load() returned
MatchFirstLoad_AlwaysWrite(r) == [next |-> "write_default", result |-> NoResult]

\* load_or_write_default, the match on the first load(): what to do next
\* and, when the call returns here, what it returns
MatchFirstLoad(r) ==
    IF r.ok THEN [next |-> "return", result |-> Ok(r.value, FALSE)]
    ELSE IF r.kind = "IoRead" THEN
        IF r.cause = "NotFound" THEN [next |-> "write_default", result |-> NoResult]
        ELSE [next |-> "return", result |-> Err("IoRead", r.cause, r.path)]
    ELSE [next |-> "return", result |-> r]

\* mutant of AfterWriteDefault: the flag is false
AfterWriteDefault_NotWritten(r) == IF r.ok THEN Ok(r.value, FALSE) ELSE r

\* load_or_write_default, after write_default(): `?` then Ok((ret, true))
AfterWriteDefault(r) == IF r.ok THEN Ok(r.value, TRUE) ELSE r

(***************************************************************************)
(* Callers                                                                 *)
(***************************************************************************)
NoPrev == [op |-> "none", result |-> NoResult, trace |-> <<>>]

AtRest(t) == pc[t] \in {"idle", "done"}

\* the operation of caller t returns r
Return(t, r) ==
    /\ pc' = [pc EXCEPT ![t] = "done"]
    /\ result' = [result EXCEPT ![t] = r]

\* write_default() of caller t fails with e: write_default returns it, and
\* so does load_or_write_default (`?`)
ReturnFromWriteDefault(t, e) ==
    /\ wdres' = [wdres EXCEPT ![t] = e]
    /\ IF op[t] = "load_or_write_default"
       THEN Return(t, AfterWriteDefault(e))
       ELSE Return(t, e)

\* A caller starts one of the three operations.  load and
\* load_or_write_default begin in load(); write_default begins with path().
Call(t, o) ==
    /\ AtRest(t)
    /\ op' = [op EXCEPT ![t] = o]
    /\ phase' = [phase EXCEPT ![t] = "first"]
    /\ pc' = [pc EXCEPT ![t] = IF o = "write_default" THEN "wd_path" ELSE "load_path"]
    /\ prev' = [prev EXCEPT ![t] = IF pc[t] = "done"
                                     THEN [op |-> op[t], result |-> result[t], trace |-> trace[t]]
                                     ELSE NoPrev]
    /\ result' = [result EXCEPT ![t] = NoResult]
    /\ first' = [first EXCEPT ![t] = NoResult]
    /\ wdres' = [wdres EXCEPT ![t] = NoResult]
    /\ trace' = [trace EXCEPT ![t] = <<>>]
    /\ fs0' = [fs0 EXCEPT ![t] = fs]
    /\ UNCHANGED <<format, default_config, env_home, PATH, computed, observed, fs, rsvars>>

AfterPath(p) == IF p \in {"load_path", "load_init"} THEN "load_read" ELSE "wd_mkdir"

\* mutant of PathCall: check-then-set, the cell is not claimed
PathCall_CheckThenSet(t) ==
    /\ pc[t] \in {"load_path", "wd_path"}
    /\ \/ /\ PATH.state = "Complete"
          /\ observed' = observed \cup {PATH.value}
          /\ pc' = [pc EXCEPT ![t] = AfterPath(pc[t])]
       \/ /\ PATH.state = "Incomplete"
          /\ pc' = [pc EXCEPT ![t] = IF pc[t] = "load_path" THEN "load_init" ELSE "wd_init"]
          /\ UNCHANGED observed
       \/ /\ PATH.state = "Poisoned"
          /\ pc' = [pc EXCEPT ![t] = "panicked"]
          /\ UNCHANGED observed
    /\ UNCHANGED <<format, default_config, env_home, PATH, computed, fs, op, phase, result,
                   first, wdres, trace, fs0, prev, rsvars>>

\* Self::path(): the deref of the lazy static.  An initialized cell is read;
\* an uninitialized one is claimed by this caller, who then runs the
\* initializer; while another caller runs it, this one waits; a poisoned
\* cell panics.
PathCall(t) ==
    /\ pc[t] \in {"load_path", "wd_path"}
    /\ \/ /\ PATH.state = "Complete"
          /\ observed' = observed \cup {PATH.value}
          /\ pc' = [pc EXCEPT ![t] = AfterPath(pc[t])]
          /\ UNCHANGED PATH
       \/ /\ PATH.state = "Incomplete"
          /\ PATH' = [state |-> "Running", value |-> NoPath]
          /\ pc' = [pc EXCEPT ![t] = IF pc[t] = "load_path" THEN "load_init" ELSE "wd_init"]
          /\ UNCHANGED observed
       \/ /\ PATH.state = "Poisoned"
          /\ pc' = [pc EXCEPT ![t] = "panicked"]
          /\ UNCHANGED <<PATH, observed>>
    /\ UNCHANGED <<format, default_config, env_home, computed, fs, op, phase, result,
                   first, wdres, trace, fs0, prev, rsvars>>

\* The initializer of PATH: ProjectDirs::from(..).expect(..).config_dir().join(..)
PathInit(t) ==
    /\ pc[t] \in {"load_init", "wd_init"}
    /\ computed' = computed + 1
    /\ IF env_home = NoHome
       THEN /\ PATH' = [state |-> "Poisoned", value |-> NoPath]
            /\ pc' = [pc EXCEPT ![t] = "panicked"]
            /\ UNCHANGED observed
       ELSE /\ PATH' = [state |-> "Complete", value |-> ConfigPath(env_home)]
            /\ observed' = observed \cup {ConfigPath(env_home)}
            /\ pc' = [pc EXCEPT ![t] = AfterPath(pc[t])]
    /\ UNCHANGED <<format, default_config, env_home, fs, op, phase, result,
                   first, wdres, trace, fs0, prev, rsvars>>

\* mutant of LoadStep: load_or_write_default drops the value write_default
\* returned and calls load() once more
LoadStep_LoadAgain(t) ==
    /\ pc[t] = "load_read"
    /\ LET r == load(fs, format, PATH.value) IN
       /\ trace' = [trace EXCEPT ![t] = Append(@, "read")]
       /\ IF op[t] = "load_or_write_default" /\ phase[t] = "first"
          THEN /\ first' = [first EXCEPT ![t] = r]
               /\ UNCHANGED <<wdres, phase>>
               /\ IF MatchFirstLoad(r).next = "return"
                  THEN Return(t, MatchFirstLoad(r).result)
                  ELSE /\ pc' = [pc EXCEPT ![t] = "wd_path"]
                       /\ UNCHANGED result
          ELSE IF op[t] = "load_or_write_default" /\ phase[t] = "written" /\ r.ok
          THEN /\ wdres' = [wdres EXCEPT ![t] = r]
               /\ phase' = [phase EXCEPT ![t] = "loaded again"]
               /\ pc' = [pc EXCEPT ![t] = "load_path"]
               /\ UNCHANGED <<first, result>>
          ELSE /\ UNCHANGED <<first, phase>>
               /\ wdres' = [wdres EXCEPT ![t] = IF op[t] = "load" \/ phase[t] = "loaded again"
                                                 THEN @ ELSE r]
               /\ IF op[t] = "load_or_write_default"
                  THEN Return(t, AfterWriteDefault(r))
                  ELSE Return(t, r)
    /\ UNCHANGED <<format, default_config, env_home, PATH, computed, observed, fs,
                   op, fs0, prev, rsvars>>

\* The body of load(), and what its caller does with the result: load() and
\* write_default() return it; load_or_write_default() matches on it.
LoadStep(t) ==
    /\ pc[t] = "load_read"
    /\ LET r == load(fs, format, PATH.value) IN
       /\ trace' = [trace EXCEPT ![t] = Append(@, "read")]
       /\ IF op[t] = "load_or_write_default" /\ phase[t] = "first"
          THEN /\ first' = [first EXCEPT ![t] = r]
               /\ UNCHANGED wdres
               /\ IF MatchFirstLoad(r).next = "return"
                  THEN Return(t, MatchFirstLoad(r).result)
                  ELSE /\ pc' = [pc EXCEPT ![t] = "wd_path"]
                       /\ UNCHANGED result
          ELSE /\ UNCHANGED first
               /\ wdres' = [wdres EXCEPT ![t] = IF op[t] = "load" THEN @ ELSE r]
               /\ IF op[t] = "load_or_write_default"
                  THEN Return(t, AfterWriteDefault(r))
                  ELSE Return(t, r)
    /\ UNCHANGED <<format, default_config, env_home, PATH, computed, observed, fs,
                   op, phase, fs0, prev, rsvars>>

\* mutant of MkdirStep: the result of create_dir_all is dropped
MkdirStep_IgnoreError(t) ==
    /\ pc[t] = "wd_mkdir"
    /\ LET m == create_dir_all(fs) IN
       /\ trace' = [trace EXCEPT ![t] = Append(@, "mkdir")]
       /\ fs' = m.fs
       /\ pc' = [pc EXCEPT ![t] = "wd_write"]
       /\ UNCHANGED <<result, wdres>>
    /\ UNCHANGED <<format, default_config, env_home, PATH, computed, observed,
                   op, phase, first, fs0, prev, rsvars>>

\* write_default: fs::create_dir_all(parent), MakeDir on failure
MkdirStep(t) ==
    /\ pc[t] = "wd_mkdir"
    /\ LET m == create_dir_all(fs) IN
       /\ trace' = [trace EXCEPT ![t] = Append(@, "mkdir")]
       /\ fs' = m.fs
       /\ IF m.ok
          THEN /\ pc' = [pc EXCEPT ![t] = "wd_write"]
               /\ UNCHANGED <<result, wdres>>
          ELSE ReturnFromWriteDefault(t, Err("MakeDir", m.cause, Parent(PATH.value)))
    /\ UNCHANGED <<format, default_config, env_home, PATH, computed, observed,
                   op, phase, first, fs0, prev, rsvars>>

\* write_default: fs::write(path, DEFAULT), IoWrite on failure, then load()
WriteStep(t) ==
    /\ pc[t] = "wd_write"
    /\ LET w == fs_write(fs, default_config) IN
       /\ trace' = [trace EXCEPT ![t] = Append(@, "write")]
       /\ fs' = w.fs
       /\ IF w.ok
          THEN /\ pc' = [pc EXCEPT ![t] = "load_path"]
               /\ phase' = [phase EXCEPT ![t] = "written"]
               /\ UNCHANGED <<result, wdres>>
          ELSE /\ ReturnFromWriteDefault(t, Err("IoWrite", w.cause, PATH.value))
               /\ UNCHANGED phase
    /\ UNCHANGED <<format, default_config, env_home, PATH, computed, observed,
                   op, first, fs0, prev, rsvars>>

(***************************************************************************)
(* The outside world                                                       *)
(***************************************************************************)
\* Something else changes the file, the directory or the permissions while
\* no call is running; what earlier calls returned says nothing any more.
Outside ==
    /\ \A t \in Threads : AtRest(t)
    /\ \E f \in FsStates : f # fs /\ fs' = f
    /\ pc' = [t \in Threads |-> "idle"]
    /\ op' = [t \in Threads |-> "none"]
    /\ phase' = [t \in Threads |-> "first"]
    /\ result' = [t \in Threads |-> NoResult]
    /\ first' = [t \in Threads |-> NoResult]
    /\ wdres' = [t \in Threads |-> NoResult]
    /\ trace' = [t \in Threads |-> <<>>]
    /\ fs0' = [t \in Threads |-> f0]
    /\ prev' = [t \in Threads |-> NoPrev]
    /\ UNCHANGED <<format, default_config, env_home, PATH, computed, observed, rsvars>>

\* The environment ProjectDirs reads changes
SetHome ==
    /\ \E h \in Homes \cup {NoHome} : h # env_home /\ env_home' = h
    /\ UNCHANGED <<format, default_config, PATH, computed, observed, fs,
                   pc, op, phase, result, first, wdres, trace, fs0, prev, rsvars>>

(***************************************************************************)
(* Specifications                                                          *)
(***************************************************************************)
NoOpt == [org |-> <<>>, qualifier |-> <<>>, application |-> <<>>,
          default_config_ident |-> [some |-> FALSE, ident |-> <<>>],
          filename |-> <<>>, format |-> "-"]

ResolveOff ==
    /\ pkg_authors = <<>>
    /\ features = {}
    /\ attrs = <<>>
    /\ idx = 0
    /\ ret = NoOpt
    /\ rpc = "off"

CallersInit ==
    /\ PATH = [state |-> "Incomplete", value |-> NoPath]
    /\ computed = 0
    /\ observed = {}
    /\ pc = [t \in Threads |-> "idle"]
    /\ op = [t \in Threads |-> "none"]
    /\ phase = [t \in Threads |-> "first"]
    /\ result = [t \in Threads |-> NoResult]
    /\ first = [t \in Threads |-> NoResult]
    /\ wdres = [t \in Threads |-> NoResult]
    /\ trace = [t \in Threads |-> <<>>]
    /\ fs0 = [t \in Threads |-> f0]
    /\ prev = [t \in Threads |-> NoPrev]
    /\ calls = 0

Init ==
    /\ format \in Format
    /\ default_config \in Texts
    /\ env_home \in Homes \cup {NoHome}
    /\ fs \in FsStates
    /\ CallersInit
    /\ ResolveOff

Next ==
    \/ \E o \in Ops : Call(1, o) /\ UNCHANGED calls
    \/ PathCall(1) /\ UNCHANGED calls
    \/ PathInit(1) /\ UNCHANGED calls
    \/ LoadStep(1) /\ UNCHANGED calls
    \/ MkdirStep(1) /\ UNCHANGED calls
    \/ WriteStep(1) /\ UNCHANGED calls
    \/ Outside /\ UNCHANGED calls
    \/ SetHome /\ UNCHANGED calls

Spec == Init /\ [][Next]_vars

\* Several callers, starting with nothing on disk and everything permitted;
\* nothing but the callers touches the filesystem.  The default payload is
\* TOML text: it parses when the format is Toml and does not when it is Yaml.
InitConc ==
    /\ format \in Format
    /\ default_config = "a = 1"
    /\ env_home \in Homes \cup {NoHome}
    /\ fs = f0
    /\ CallersInit
    /\ ResolveOff

NextConc ==
    \/ \E t \in Threads, o \in Ops : calls < MaxCalls /\ Call(t, o) /\ calls' = calls + 1
    \/ \E t \in Threads : PathCall(t) /\ UNCHANGED calls
    \/ \E t \in Threads : PathInit(t) /\ UNCHANGED calls
    \/ \E t \in Threads : LoadStep(t) /\ UNCHANGED calls
    \/ \E t \in Threads : MkdirStep(t) /\ UNCHANGED calls
    \/ \E t \in Threads : WriteStep(t) /\ UNCHANGED calls
    \/ SetHome /\ UNCHANGED calls

SpecConc == InitConc /\ [][NextConc]_vars

(***************************************************************************)
(* Option resolution (cfgen_derive/src/lib.rs 130-191, 222-285)            *)
(*                                                                         *)
(* A string is a sequence of symbols.  CARGO_PKG_AUTHORS is spelled out    *)
(* over the symbols the code looks at; every other string is one symbol.   *)
(***************************************************************************)
Chars == {"B", " ", "<", ":"}
Strings(n) == UNION {[1..k -> Chars] : k \in 0..n}
S(w) == <<w>>

\* s.split(sep).next().unwrap(): s up to the first occurrence of sep
SplitFirst(s, sep) ==
    LET at == {i \in 1..Len(s) : /\ i + Len(sep) - 1 <= Len(s)
                                 /\ SubSeq(s, i, i + Len(sep) - 1) = sep}
    IN  IF at = {} THEN s
        ELSE SubSeq(s, 1, (CHOOSE i \in at : \A j \in at : i <= j) - 1)

Features == {"with-toml", "yaml"}

\* default_format(), one definition per cfg_if! branch
default_format(feats) ==
    IF "with-toml" \in feats THEN "Toml"
    ELSE IF "yaml" \in feats THEN "Yaml"
    ELSE "panic"

\* <Format as FromStr>::from_str
from_str(s) ==
    IF s = S("yaml") THEN "Yaml"
    ELSE IF s = S("toml") THEN "Toml"
    ELSE "panic"

None == [some |-> FALSE, ident |-> <<>>]
Some(i) == [some |-> TRUE, ident |-> i]

CARGO_PKG_NAME == S("app")

Running(opt) == [panic |-> "-", opt |-> opt]
Panic(why) == [panic |-> why, opt |-> NoOpt]

\* <CfgOpt as Default>::default
CfgOptDefault(authors, feats) ==
    LET first_author_field == SplitFirst(authors, <<":">>)
        org == SplitFirst(first_author_field, <<" ", "<">>)
        fmt == default_format(feats)
    IN  IF org = <<>> THEN Panic("empty org")
        ELSE IF fmt = "panic" THEN Panic("no format feature")
        ELSE Running([org |-> org,
                      qualifier |-> S("org"),
                      application |-> CARGO_PKG_NAME,
                      default_config_ident |-> None,
                      filename |-> S(default_filename(fmt)),
                      format |-> fmt])

\* mutant of parse_field: the qualifier entry of KV_PARSERS assigns org
parse_field_QualifierSetsOrg(field, cfg_opt) ==
    CASE field.key = "app_name"  -> Running([cfg_opt EXCEPT !.application = field.val])
      [] field.key = "org"       -> Running([cfg_opt EXCEPT !.org = field.val])
      [] field.key = "qualifier" -> Running([cfg_opt EXCEPT !.org = field.val])
      [] field.key = "default"   -> Running([cfg_opt EXCEPT !.default_config_ident = Some(field.val)])
      [] field.key = "filename"  -> Running([cfg_opt EXCEPT !.filename = field.val])
      [] field.key = "format"    ->
            IF from_str(field.val) = "panic" THEN Panic("unknown format")
            ELSE Running([cfg_opt EXCEPT !.format = from_str(field.val)])
      [] OTHER -> Panic("unknown option")

\* parse_field: the KV_PARSERS entry of the key, applied to the value
parse_field(field, cfg_opt) ==
    CASE field.key = "app_name"  -> Running([cfg_opt EXCEPT !.application = field.val])
      [] field.key = "org"       -> Running([cfg_opt EXCEPT !.org = field.val])
      [] field.key = "qualifier" -> Running([cfg_opt EXCEPT !.qualifier = field.val])
      [] field.key = "default"   -> Running([cfg_opt EXCEPT !.default_config_ident = Some(field.val)])
      [] field.key = "filename"  -> Running([cfg_opt EXCEPT !.filename = field.val])
      [] field.key = "format"    ->
            IF from_str(field.val) = "panic" THEN Panic("unknown format")
            ELSE Running([cfg_opt EXCEPT !.format = from_str(field.val)])
      [] OTHER -> Panic("unknown option")

KV(k, v) == [key |-> k, val |-> v]

\* the options drawn for #[cfgen(...)]
AttrValues ==
    {KV("app_name", S("x")),
     KV("org", S("Big Company")), KV("org", S("Small Company")),
     KV("qualifier", S("com")),
     KV("default", S("DEFAULT_CONFIG")),
     KV("filename", S("configuration.toml")),
     KV("format", S("toml")), KV("format", S("yaml")), KV("format", S("json")),
     KV("colour", S("x"))}

AttrLists == UNION {[1..k -> AttrValues] : k \in 0..MaxAttrs}

rtidle == <<format, default_config, env_home, PATH, computed, observed, fs,
            pc, op, phase, result, first, wdres, trace, fs0, prev, calls>>

\* parse_all_attrs: let mut ret = CfgOpt::default();
Default ==
    /\ rpc = "start"
    /\ LET d == CfgOptDefault(pkg_authors, features) IN
       /\ ret' = d.opt
       /\ rpc' = IF d.panic = "-" THEN "parse" ELSE d.panic
    /\ UNCHANGED <<pkg_authors, features, attrs, idx, rtidle>>

\* parse_all_attrs: parse_field(&meta, &mut ret) for the next option
ParseField ==
    /\ rpc = "parse"
    /\ idx < Len(attrs)
    /\ LET d == parse_field(attrs[idx + 1], ret) IN
       /\ ret' = d.opt
       /\ rpc' = IF d.panic = "-" THEN "parse" ELSE d.panic
    /\ idx' = idx + 1
    /\ UNCHANGED <<pkg_authors, features, attrs, rtidle>>

\* parse_all_attrs returns ret
Resolved ==
    /\ rpc = "parse"
    /\ idx = Len(attrs)
    /\ rpc' = "resolved"
    /\ UNCHANGED <<pkg_authors, features, attrs, idx, ret, rtidle>>

InitResolve ==
    /\ pkg_authors \in Strings(MaxLen)
    /\ features \in SUBSET Features
    /\ attrs \in AttrLists
    /\ idx = 0
    /\ ret = NoOpt
    /\ rpc = "start"
    /\ format = "Toml"
    /\ default_config = "a = 1"
    /\ env_home = NoHome
    /\ fs = f0
    /\ CallersInit

NextResolve ==
    \/ Default
    \/ ParseField
    \/ Resolved

SpecResolve == InitResolve /\ [][NextResolve]_vars

(***************************************************************************)
(* Properties of the generated operations                                  *)
(***************************************************************************)
Has(seq, x) == \E i \in 1..Len(seq) : seq[i] = x

Returned(t, o) == pc[t] = "done" /\ op[t] = o

IsNotFound(r) == ~r.ok /\ r.kind = "IoRead" /\ r.cause = "NotFound"

\* write_default() was entered by the current call of t and has returned
WdReturned(t) == pc[t] = "done" /\ wdres[t] # NoResult

\* C1: load_or_write_default returns Loaded exactly when its first load()
\* succeeded, and then made no directory and wrote nothing; it returns
\* DefaultWritten exactly when the first load() failed with IoRead/NotFound
\* and write_default() succeeded; in every other case it returns an error;
\* a failure of write_default() is returned unchanged.
C1_OutcomeOfLoadOrWriteDefault ==
    \A t \in Threads : Returned(t, "load_or_write_default") =>
        LET r == result[t] IN
        /\ (r.ok /\ ConfigLoad(r) = "Loaded") <=> first[t].ok
        /\ first[t].ok => (~Has(trace[t], "mkdir") /\ ~Has(trace[t], "write"))
        /\ (r.ok /\ ConfigLoad(r) = "DefaultWritten")
              <=> (IsNotFound(first[t]) /\ wdres[t].ok)
        /\ ~r.ok <=> ~(first[t].ok \/ (IsNotFound(first[t]) /\ wdres[t].ok))
        /\ (wdres[t] # NoResult /\ ~wdres[t].ok) => r = wdres[t]

\* C1 witness: a bootstrap whose write_default() failed at the write
C1_Witness ==
    /\ Returned(1, "load_or_write_default")
    /\ IsNotFound(first[1])
    /\ wdres[1].kind = "IoWrite"
    /\ result[1].kind = "IoWrite"

\* C2: when the first load() of load_or_write_default fails with anything
\* but IoRead/NotFound, that very error (kind, cause, path) is returned,
\* no directory creation and no write is attempted, and the filesystem is
\* as it was.
C2_OtherFailuresPropagate ==
    \A t \in Threads :
        (/\ Returned(t, "load_or_write_default")
         /\ first[t] # NoResult
         /\ ~first[t].ok
         /\ ~IsNotFound(first[t])) =>
            /\ result[t] = first[t]
            /\ result[t].path = PATH.value
            /\ trace[t] = <<"read">>
            /\ fs = fs0[t]

\* C2 witness: a malformed existing file makes load_or_write_default fail
\* with the format's parse error
C2_Witness ==
    /\ Returned(1, "load_or_write_default")
    /\ fs0[1].file.exists
    /\ result[1].kind = FormatError(format)
    /\ result[1].cause = "Parse"

\* the precondition of the not-found bootstrap: no file, a default payload
\* that parses, directory creation and write permitted
CanBootstrap(f) ==
    /\ ~f.file.exists
    /\ f.dir \/ f.canMkdir
    /\ f.canWrite
    /\ Deserialize(format, default_config).ok

\* C3: from a filesystem without the file, with a default payload that
\* parses and directory creation and write permitted,
\* load_or_write_default returns DefaultWritten with the value the default
\* payload parses to, and leaves a file whose content parses to that value.
C3_NotFoundBootstrap ==
    \A t \in Threads :
        (Returned(t, "load_or_write_default") /\ CanBootstrap(fs0[t])) =>
            LET v == Deserialize(format, default_config).value IN
            /\ result[t].ok
            /\ ConfigLoad(result[t]) = "DefaultWritten"
            /\ result[t].value = v
            /\ fs.file.exists
            /\ fs.file.readable
            /\ fs.file.cont # Binary
            /\ Deserialize(format, fs.file.cont) = ParseOk(v)

\* C3 witness: a bootstrap that also had to create the directory
C3_Witness ==
    /\ Returned(1, "load_or_write_default")
    /\ CanBootstrap(fs0[1])
    /\ ~fs0[1].dir
    /\ result[1].written

\* C4: a load_or_write_default that follows one that returned
\* DefaultWritten, with nothing changed in between, returns Loaded with
\* the same value and writes nothing.
C4_BootstrapIdempotent ==
    \A t \in Threads :
        (/\ Returned(t, "load_or_write_default")
         /\ prev[t].op = "load_or_write_default"
         /\ prev[t].result.ok
         /\ ConfigLoad(prev[t].result) = "DefaultWritten") =>
            /\ result[t].ok
            /\ ConfigLoad(result[t]) = "Loaded"
            /\ result[t].value = prev[t].result.value
            /\ ~Has(trace[t], "write")
            /\ fs = fs0[t]

\* C4 witness: the second call after a bootstrap has returned
C4_Witness ==
    /\ Returned(1, "load_or_write_default")
    /\ prev[1].op = "load_or_write_default"
    /\ prev[1].result.written
    /\ result[1].ok

\* the filesystem operations write_default() made in the current call
WdTrace(t) == IF op[t] = "load_or_write_default" THEN Tail(trace[t]) ELSE trace[t]

\* C5: write_default creates the directory, then writes the payload, then
\* loads, and stops at the first failure: MakeDir when the directory cannot
\* be created (nothing written, nothing read), IoWrite when the write fails
\* (nothing read), else the result of load(), errors included; after a
\* successful write the file holds exactly the default payload.
C5_WriteDefaultSteps ==
    \A t \in Threads : WdReturned(t) =>
        LET w == WdTrace(t)
            f == fs0[t]
            mkdirFails == ~f.dir /\ ~f.canMkdir
            writeFails == ~f.canWrite
        IN  /\ w \in {<<"mkdir">>, <<"mkdir", "write">>, <<"mkdir", "write", "read">>}
            /\ mkdirFails <=> (wdres[t].kind = "MakeDir")
            /\ mkdirFails => (w = <<"mkdir">> /\ fs = f)
            /\ (~mkdirFails /\ writeFails) <=> (wdres[t].kind = "IoWrite")
            /\ (~mkdirFails /\ writeFails) => (w = <<"mkdir", "write">> /\ fs.file = f.file)
            /\ (~mkdirFails /\ ~writeFails) =>
                  /\ w = <<"mkdir", "write", "read">>
                  /\ fs.dir /\ fs.file.exists /\ fs.file.cont = default_config
                  /\ wdres[t] = load(fs, format, PATH.value)

\* C5 witness: write_default overwrote a file with other content and then
\* failed in load(), whose error it returned
C5_Witness ==
    /\ Returned(1, "write_default")
    /\ fs0[1].file.exists
    /\ fs0[1].file.cont # default_config
    /\ trace[1] = <<"mkdir", "write", "read">>
    /\ ~result[1].ok

\* C6: load() fails with IoRead carrying path() when the file cannot be
\* read (absent, unreadable, not text), fails with the parse error variant
\* of the descriptor's format carrying path() when the text does not
\* deserialize, returns the deserialized value otherwise, and leaves the
\* filesystem as it was.
C6_Load ==
    \A t \in Threads : Returned(t, "load") =>
        LET f == fs0[t].file
            unreadable == ~f.exists \/ ~f.readable \/ f.cont = Binary
            r == result[t]
        IN  /\ unreadable => (~r.ok /\ r.kind = "IoRead" /\ r.path = PATH.value)
            /\ (~unreadable /\ ~Deserialize(format, f.cont).ok) =>
                  (~r.ok /\ r.kind = (IF format = "Toml" THEN "Toml" ELSE "Yaml")
                         /\ r.path = PATH.value)
            /\ (~unreadable /\ Deserialize(format, f.cont).ok) =>
                  (r.ok /\ r.value = Deserialize(format, f.cont).value)
            /\ trace[t] = <<"read">>
            /\ fs = fs0[t]

\* C6 witness: load() of a YAML-bound type on a readable file with TOML text
C6_Witness ==
    /\ Returned(1, "load")
    /\ format = "Yaml"
    /\ fs0[1].file = File("a = 1", TRUE)
    /\ result[1].kind = "Yaml"
    /\ result[1].path = ConfigPath(env_home)

\* C7: the initializer of PATH runs at most once, whatever the interleaving
\* of the callers; every path() call, first or later, by any operation,
\* returns the one value it computed.
C7_PathComputedOnce ==
    /\ computed <= 1
    /\ Cardinality(observed) <= 1
    /\ PATH.state = "Complete" => (computed = 1 /\ observed = {PATH.value})
    /\ PATH.state \in {"Incomplete", "Running"} => (computed = 0 /\ observed = {})

\* C7 witness: two first calls are in progress at once, both are past
\* path() with the one computed value, and the environment no longer gives
\* the path that was computed
C7_Witness ==
    /\ pc[1] = "load_read" /\ pc[2] = "wd_mkdir"
    /\ prev[1] = NoPrev /\ prev[2] = NoPrev
    /\ trace[1] = <<>> /\ trace[2] = <<>>
    /\ calls = 2
    /\ PATH.state = "Complete"
    /\ observed = {PATH.value}
    /\ env_home \in Homes \ {PATH.value.home}
    /\ computed = 1

\* how often the current call of a caller made the filesystem operation x
Count(seq, x) == Cardinality({i \in 1..Len(seq) : seq[i] = x})

\* C11 as stated: every call of load, write_default and
\* load_or_write_default makes at most one read, at most one directory
\* creation and at most one write.
C11_AtMostOneOfEach ==
    \A t \in Threads :
        /\ Count(trace[t], "read") <= 1
        /\ Count(trace[t], "mkdir") <= 1
        /\ Count(trace[t], "write") <= 1

\* C11 as amended: every call makes at most one directory creation and at
\* most one write; load and write_default make at most one read;
\* load_or_write_default makes at most two reads, and two only on the
\* not-found bootstrap path: read, create directory, write, read.
C11_AtMostOneWriteTwoReads ==
    \A t \in Threads :
        /\ Count(trace[t], "mkdir") <= 1
        /\ Count(trace[t], "write") <= 1
        /\ Count(trace[t], "read") <= (IF op[t] = "load_or_write_default" THEN 2 ELSE 1)
        /\ Count(trace[t], "read") = 2 => trace[t] = <<"read", "mkdir", "write", "read">>

\* C11 witness: a bootstrap that read, created the directory, wrote and
\* read again
C11_Witness ==
    /\ Returned(1, "load_or_write_default")
    /\ trace[1] = <<"read", "mkdir", "write", "read">>
    /\ ~fs0[1].dir
    /\ result[1].ok

IsParseError(r) == ~r.ok /\ r.kind = FormatError(format) /\ r.cause = "Parse"

\* what a load_or_write_default must look like once the unparsable default
\* payload is on disk: the parse error, one read, nothing written
StaysBroken(t) ==
    (prev[t].op = "load_or_write_default" /\ IsParseError(prev[t].result)) =>
        /\ IsParseError(result[t])
        /\ result[t] = prev[t].result
        /\ trace[t] = <<"read">>
        /\ fs = fs0[t]

\* what a bootstrap with an unparsable default payload must look like: the
\* parse error, never DefaultWritten, and the payload left in the file
FailedBootstrap(t) ==
    /\ IsParseError(result[t])
    /\ result[t].path = PATH.value
    /\ ~result[t].written
    /\ Has(trace[t], "write")
    /\ fs.file.exists /\ fs.file.cont = default_config

\* C12 as stated: with a default payload that does not parse and no file,
\* load_or_write_default returns the parse error and leaves the payload
\* written; every later load_or_write_default, nothing else having
\* changed, returns the parse error without writing.
C12_UnparsableDefault ==
    \A t \in Threads :
        (Returned(t, "load_or_write_default") /\ ~Deserialize(format, default_config).ok) =>
            /\ ~fs0[t].file.exists => FailedBootstrap(t)
            /\ StaysBroken(t)

\* C12 as amended: the same, provided the directory can be created (or
\* exists) and the write is permitted.
C12_UnparsableDefaultWhenPermitted ==
    \A t \in Threads :
        (Returned(t, "load_or_write_default") /\ ~Deserialize(format, default_config).ok) =>
            /\ (/\ ~fs0[t].file.exists
                /\ fs0[t].dir \/ fs0[t].canMkdir
                /\ fs0[t].canWrite) => FailedBootstrap(t)
            /\ StaysBroken(t)

\* C12 witness: the call after a bootstrap that wrote an unparsable payload
C12_Witness ==
    /\ Returned(1, "load_or_write_default")
    /\ prev[1].op = "load_or_write_default"
    /\ prev[1].trace = <<"read", "mkdir", "write", "read">>
    /\ IsParseError(prev[1].result)
    /\ IsParseError(result[1])
    /\ fs.file.cont = default_config

\* the only calls made so far are load_or_write_default calls, at most two
OnlyTwoBootstraps ==
    /\ calls <= 2
    /\ \A t \in Threads : op[t] \in {"none", "load_or_write_default"}
    /\ \A t \in Threads : prev[t] = NoPrev

\* C13: two load_or_write_default calls racing on one path, from no file,
\* with a default payload that parses and every filesystem operation atomic
\* and permitted: neither fails, both return the value of the payload, at
\* least one returns DefaultWritten, and the file holds exactly the payload.
C13_RacingBootstraps ==
    (Deserialize(format, default_config).ok /\ OnlyTwoBootstraps) =>
        /\ \A t \in Threads : Returned(t, "load_or_write_default") =>
              /\ result[t].ok
              /\ result[t].value = Deserialize(format, default_config).value
              /\ fs.file = File(default_config, TRUE)
        /\ \A t1, t2 \in Threads :
              (/\ t1 # t2
               /\ Returned(t1, "load_or_write_default")
               /\ Returned(t2, "load_or_write_default")) =>
                  /\ result[t1].value = result[t2].value
                  /\ result[t1].written \/ result[t2].written

\* C13 witness: both callers found no file, both wrote, both returned
C13_Witness ==
    /\ Returned(1, "load_or_write_default")
    /\ Returned(2, "load_or_write_default")
    /\ OnlyTwoBootstraps
    /\ trace[1] = <<"read", "mkdir", "write", "read">>
    /\ trace[2] = <<"read", "mkdir", "write", "read">>
    /\ result[1].written /\ result[2].written

(***************************************************************************)
(* Properties of the option resolution                                     *)
(***************************************************************************)
HasOverride(k) == \E i \in 1..Len(attrs) : attrs[i].key = k

\* the value of the last option with key k
LastOverride(k) ==
    attrs[CHOOSE i \in 1..Len(attrs) :
            /\ attrs[i].key = k
            /\ \A j \in 1..Len(attrs) : attrs[j].key = k => j <= i].val

\* the first author without the contact suffix
BaselineOrg == SplitFirst(SplitFirst(pkg_authors, <<":">>), <<" ", "<">>)

\* C8: resolution fails because of an empty organization only when the
\* baseline organization is empty and no org option is given.
C8_EmptyOrgFailsOnlyWithoutOverride ==
    rpc = "empty org" => (BaselineOrg = <<>> /\ ~HasOverride("org"))

C10_FilenameFollowsFormat ==
    (rpc = "resolved" /\ ~HasOverride("filename")) =>
        ret.filename = (IF ret.format = "Yaml" THEN S("config.yml") ELSE S("config.toml"))

====
